---- MODULE Spec2Model ----
(***************************************************************************)
(* Crime Rate Prediction: the forecasting routine simple_forecast and its  *)
(* caller main (src/app.py), and the month loop of generate_crime_data     *)
(* (src/generate_data.py).                                                 *)
(*                                                                         *)
(* Arithmetic.  The code computes in floating point; the model computes    *)
(* the same quantities as exact rationals held as integer numerators:      *)
(*   trend            numerator over TrendDivisor          (1/12)          *)
(*   base             numerator over TrendDivisor          (1/12)          *)
(*   a noise factor   numerator over NoiseUnit             (1/10000)       *)
(*   a forecast value numerator over 12 * NoiseUnit        (1/120000)      *)
(* np.random.uniform(0.95, 1.05) returns any float of the interval; the    *)
(* model draws from a grid of NoiseSteps equal steps over it, with 1.0,    *)
(* and NoiseSteps is a bound of the model.                                 *)
(***************************************************************************)
EXTENDS Integers, Sequences, FiniteSets, TLC

VARIABLES
    \* ---- simple_forecast (src/app.py:84-104) ----
    city_data,       \* the series object passed in (shared with the caller)
    months_ahead,    \* the horizon argument
    fpc,             \* position in simple_forecast
    trend,           \* local: trend, in 1/12
    base,            \* local: base, in 1/12
    i,               \* local: loop index
    forecasts,       \* local: the list being built, values in 1/120000
    draws,           \* the factors np.random.uniform returned in this call
    ret,             \* the value returned to the caller
    given,           \* the series as the caller held it when it made the call
    prev,            \* a record for comparing invocations: the invocation
                     \* before this one on the same arguments, kept while
                     \* this one has drawn the factors that one drew
    \* ---- main (src/app.py:106-312) ----
    mpc,             \* position in main
    df,              \* what load_data returned: "unread", "loaded" or "None"
    monthly_data,    \* rows [Year, Month, Incidents_Reported], sorted by date
    forecast_months, \* the slider's value
    button,          \* whether "Generate Prediction" was pressed in this run
    future_dates,    \* the dates built for the forecast, <<year, month>>
    forecast_df,     \* rows [Date, Predicted_Incidents]
    rendered,        \* the sections drawn in this run of the script
    error,           \* the exception that ended this run, or "none"
    \* ---- generate_crime_data (src/generate_data.py:41-135) ----
    gpc,             \* position in generate_crime_data
    start,           \* <<year, month, day>>
    end,             \* <<year, month, day>>
    current_date,    \* <<year, month, day>>
    year,            \* local: current_date.year
    month,           \* local: current_date.month
    city,            \* index into CITIES of the city loop
    crime,           \* index into CRIME_TYPES of the crime loop
    incidents,       \* local: Incidents_Reported of the record just appended
    data             \* the records appended so far (their key columns)

engineVars == <<city_data, months_ahead, fpc, trend, base, i, forecasts,
                draws, ret, given, prev>>

mainVars == <<mpc, df, monthly_data, forecast_months, button, future_dates,
              forecast_df, rendered, error>>

genVars == <<gpc, start, end, current_date, year, month, city, crime,
             incidents, data>>

vars == <<engineVars, mainVars, genVars>>

----------------------------------------------------------------------------
(* Program constants *)

MinHistory   == 12     \* len(city_data) < 12
TrendWindow  == 12     \* city_data.tail(12)
TrendDivisor == 12     \* ... / 12
BaseWindow   == 6      \* city_data.tail(6)
NoiseLow     == 9500   \* uniform(0.95, ...)
NoiseHigh    == 10500  \* uniform(..., 1.05)
NoiseUnit    == 10000  \* the factor 1.0: the scale noise factors are written in
SliderMin    == 3      \* st.sidebar.slider(min_value=3, ...)
SliderMax    == 12     \* st.sidebar.slider(max_value=12, ...)
AnchorYear   == 2025   \* datetime(2025, 7, 1)
AnchorMonth  == 7      \* datetime(2025, 7, 1)
VarLow       == -5     \* np.random.randint(-5, 6)
VarHighExcl  == 6      \* np.random.randint(-5, 6), upper end excluded
FirstYear    == 2019   \* start_date="2019-01-01"

(* Bounds of the model *)

MaxHorizon == 3        \* largest months_ahead of a direct call
ExtraLen   == 1        \* how far a series may exceed MinHistory
NoiseSteps == 5        \* steps of the grid of factors over [0.95, 1.05]
MaxPerturbed == 1      \* main: draws other than 1.0 explored per forecast
MaxCities  == 2        \* cities of CITIES the generator loops over
MaxCrimes  == 2        \* crime types of CRIME_TYPES the generator loops over
MaxRaw     == 3        \* largest incident count before the random variation
MaxSpan    == 3        \* months an end date may lie after its start date

----------------------------------------------------------------------------
(* Helpers *)

RECURSIVE Sum(_)
Sum(s) == IF s = <<>> THEN 0 ELSE Head(s) + Sum(Tail(s))

Max0(x) == IF x > 0 THEN x ELSE 0

\* Series.tail(n): the last n elements (all of them when there are fewer).
tail(s, n) == IF Len(s) <= n THEN s ELSE SubSeq(s, Len(s) - n + 1, Len(s))

\* Series.mean(), in 1/12.
mean12(s) == (TrendDivisor * Sum(s)) \div Len(s)

\* trend = (recent_data.iloc[-1] - recent_data.iloc[0]) / 12, in 1/12.
Trend(s) ==
    LET recent_data == tail(s, TrendWindow)
    IN  recent_data[Len(recent_data)] - recent_data[1]

\* A faulty Base: the mean of the whole series, tail(6) forgotten.
BaseWholeSeries(s) == mean12(s)

\* base = city_data.tail(6).mean(), in 1/12.
Base(s) == mean12(tail(s, BaseWindow))

\* A faulty TooShort: the threshold one too low (len(city_data) < 11).
TooShortOffByOne(s) == Len(s) < MinHistory - 1

\* if len(city_data) < 12
TooShort(s) == Len(s) < MinHistory

\* A faulty InRange: range(1, months_ahead), the last step lost.
InRangeExclusive(k, h) == k < h

\* for i in range(1, months_ahead + 1): whether index k is still in range.
InRange(k, h) == k <= h

\* A faulty NoiseChoices: one factor drawn per call and reused at every
\* step of it.
NoiseOncePerCall(drawn) ==
    IF drawn = <<>>
    THEN {NoiseLow + k * ((NoiseHigh - NoiseLow) \div NoiseSteps) : k \in 0..NoiseSteps}
    ELSE {drawn[1]}

\* The grid of factors of [0.95, 1.05] the model draws from: NoiseSteps
\* equal steps from 0.95, and 1.0.
NoiseGrid ==
    {NoiseLow + k * ((NoiseHigh - NoiseLow) \div NoiseSteps) : k \in 0..NoiseSteps}
        \cup {NoiseUnit}

\* The factors one call of np.random.uniform(0.95, 1.05) may return, given
\* the factors already drawn in this invocation: the same interval at every
\* call.
NoiseChoices(drawn) == NoiseGrid

Noise == NoiseChoices(<<>>)

\* forecast_value = base + (trend * i), in 1/12.
RawValue(b, t, k) == b + t * k

\* A faulty ForecastValue: the clamp at 0 forgotten.
ForecastValueUnclamped(b, t, k, noise) == RawValue(b, t, k) * noise

\* forecast_value = max(0, forecast_value * noise), in 1/120000.
ForecastValue(b, t, k, noise) == Max0(RawValue(b, t, k) * noise)

\* A faulty SeriesAfterTail: the series cut down to its trailing window
\* in place.
SeriesCutInPlace(s) == tail(s, TrendWindow)

\* What reading the trailing window leaves in the caller's series:
\* tail() builds a new object, the series itself is untouched.
SeriesAfterTail(s) == s

None == [none |-> TRUE, val |-> <<>>]
List(l) == [none |-> FALSE, val |-> l]

\* load_data(): the dataframe, or None (after st.error) when the csv cannot
\* be read.
load_data(readable) == IF readable THEN "loaded" ELSE "None"

NoPrev == [has |-> FALSE, draws |-> <<>>, ret |-> None]

\* The comparison record after step k of an invocation drew the factor n:
\* kept when the invocation before drew n at step k too, dropped otherwise
\* (the two invocations are then no longer ones with the same draws).
Compared(p, k, n) == IF p.has /\ p.draws[k] # n THEN NoPrev ELSE p

----------------------------------------------------------------------------
(* Inputs *)

\* The trailing windows tried: six times a, five times b, then c.
Shapes == {<<100, 100, 200>>, <<100, 100, 100>>, <<200, 0, 100>>,
           <<200, 0, 0>>, <<0, 100, 200>>, <<0, 0, 0>>}

\* A series of length len: `pre` before the trailing 12, then six times a,
\* five times b, and c last.
MkSeries(len, pre, a, b, c) ==
    [k \in 1..len |->
        IF k = len THEN c
        ELSE IF k > len - BaseWindow THEN b
        ELSE IF k > len - TrendWindow THEN a
        ELSE pre]

Lens == {0, 1, MinHistory - 1} \cup (MinHistory..(MinHistory + ExtraLen))

SeriesSet == {MkSeries(len, 50, sh[1], sh[2], sh[3]) : len \in Lens, sh \in Shapes}

Horizons == (-1)..MaxHorizon

----------------------------------------------------------------------------
(* simple_forecast *)

\* Lines 86-97: the length check, then trend, base and the empty list.
ForecastEnter ==
    /\ fpc = "call"
    /\ IF TooShort(city_data)
       THEN /\ ret' = None
            /\ fpc' = "returned"
            /\ UNCHANGED <<city_data, trend, base, i, forecasts>>
       ELSE /\ trend' = Trend(city_data)
            /\ base' = Base(city_data)
            /\ city_data' = SeriesAfterTail(city_data)
            /\ forecasts' = <<>>
            /\ i' = 1
            /\ fpc' = "loop"
            /\ ret' = ret
    /\ UNCHANGED <<months_ahead, draws, given, prev, mainVars, genVars>>

\* Lines 98-102: one iteration of the loop, drawing the factor n.
ForecastStep(n) ==
    /\ fpc = "loop"
    /\ InRange(i, months_ahead)
    /\ n \in NoiseChoices(draws)
    /\ forecasts' = Append(forecasts, ForecastValue(base, trend, i, n))
    /\ draws' = Append(draws, n)
    /\ i' = i + 1
    /\ prev' = Compared(prev, i, n)
    /\ UNCHANGED <<city_data, months_ahead, fpc, trend, base, ret, given,
                   mainVars, genVars>>

\* Line 104: the loop is over; the list is returned and the locals are gone.
ForecastReturn ==
    /\ fpc = "loop"
    /\ ~InRange(i, months_ahead)
    /\ ret' = List(forecasts)
    /\ fpc' = "returned"
    /\ forecasts' = <<>>
    /\ i' = 0
    /\ trend' = 0
    /\ base' = 0
    /\ UNCHANGED <<city_data, months_ahead, draws, given, prev, mainVars, genVars>>

\* A caller invokes simple_forecast(series, h) on a fresh series.
Invoke ==
    /\ fpc = "idle"
    /\ \E s \in SeriesSet, h \in Horizons :
          /\ city_data' = s
          /\ given' = s
          /\ months_ahead' = h
    /\ fpc' = "call"
    /\ draws' = <<>>
    /\ ret' = None
    /\ prev' = NoPrev
    /\ UNCHANGED <<trend, base, i, forecasts, mainVars, genVars>>

\* The caller invokes simple_forecast again on the same series object with
\* the same horizon (a re-run on demand), remembering what it got before.
\* The factors of the new invocation are drawn afresh.
Reinvoke ==
    /\ fpc = "returned"
    /\ prev' = [has |-> TRUE, draws |-> draws, ret |-> ret]
    /\ fpc' = "call"
    /\ draws' = <<>>
    /\ ret' = None
    /\ UNCHANGED <<city_data, given, months_ahead, trend, base, i, forecasts,
                   mainVars, genVars>>

\* The caller is done with the result: arguments and result go out of scope.
Finish ==
    /\ fpc = "returned"
    /\ fpc' = "idle"
    /\ city_data' = <<>>
    /\ given' = <<>>
    /\ months_ahead' = 0
    /\ draws' = <<>>
    /\ ret' = None
    /\ prev' = NoPrev
    /\ UNCHANGED <<trend, base, i, forecasts, mainVars, genVars>>

\* The loop of simple_forecast under direct calls: every factor may be
\* drawn at every step, in a first invocation and in a re-run alike.
EngineForecastStep == \E n \in Noise : ForecastStep(n)

EngineIdle ==
    /\ city_data = <<>>
    /\ months_ahead = 0
    /\ fpc = "idle"
    /\ trend = 0
    /\ base = 0
    /\ i = 0
    /\ forecasts = <<>>
    /\ draws = <<>>
    /\ ret = None
    /\ given = <<>>
    /\ prev = NoPrev

----------------------------------------------------------------------------
(* main *)

\* A period <<year, month>> as a count of months, and back.
PeriodIndex(p) == p[1] * 12 + (p[2] - 1)
PeriodOf(idx) == <<idx \div 12, (idx % 12) + 1>>

\* The Series Aggregator's output: one row per month, ascending, the last
\* row being the period endp.
MkMonthly(values, endp) ==
    [k \in 1..Len(values) |->
        LET p == PeriodOf(PeriodIndex(endp) - (Len(values) - k))
        IN  [Year |-> p[1], Month |-> p[2], Incidents_Reported |-> values[k]]]

EndPeriods == {<<2024, 3>>, <<2025, 6>>}

MainShapes == {<<100, 100, 200>>, <<200, 0, 100>>}

MainLens == {0, 1, MinHistory - 1, MinHistory, MinHistory + ExtraLen}

MainData ==
    {MkMonthly(MkSeries(len, 50, sh[1], sh[2], sh[3]), endp) :
        len \in MainLens, sh \in MainShapes, endp \in EndPeriods}

\* monthly_data['Incidents_Reported']
Column(rows) == [k \in 1..Len(rows) |-> rows[k].Incidents_Reported]

\* dt + relativedelta(months=k), for a first-of-month dt and k >= 0:
\* relativedelta carries whole years out of k, adds the rest to the month
\* and wraps a month past December into the next year.
AddMonths(d, k) ==
    LET years  == k \div 12
        months == k % 12
        y      == d[1] + years
        m      == d[2] + months
    IN  IF m > 12 THEN <<y + 1, m - 12>> ELSE <<y, m>>

\* start_date = datetime(2025, 7, 1)
start_date == <<AnchorYear, AnchorMonth>>

\* A faulty FutureDates: range(1, forecast_months), one date short.
FutureDatesFromOne(n) == [k \in 1..(n - 1) |-> AddMonths(start_date, k)]

\* [start_date + relativedelta(months=i) for i in range(forecast_months)]
FutureDates(n) == [k \in 1..n |-> AddMonths(start_date, k - 1)]

\* A faulty Truthy: the test left out.
AlwaysTruthy(r) == TRUE

\* `if forecasts:` -- None and the empty list are both false.
Truthy(r) == ~r.none /\ r.val # <<>>

\* The number of draws of a call that are not exactly 1.0.
Perturbed(d) == Cardinality({k \in 1..Len(d) : d[k] # NoiseUnit})

\* Lines 106-189: the data is loaded (without it main returns at once:
\* no widget is read and nothing is drawn); the widgets are read, the data
\* is filtered and aggregated, the metric cards are drawn.
\* monthly_data.iloc[-1] raises IndexError on an empty selection.
MainStart ==
    /\ mpc = "start"
    /\ \E readable \in BOOLEAN, md \in MainData, fm \in SliderMin..SliderMax,
          b \in BOOLEAN :
          /\ df' = load_data(readable)
          /\ IF load_data(readable) = "None"
             THEN /\ mpc' = "returned"
                  /\ error' = "none"
                  /\ rendered' = {}
                  /\ UNCHANGED <<monthly_data, forecast_months, button>>
             ELSE /\ monthly_data' = md
                  /\ forecast_months' = fm
                  /\ button' = b
                  /\ IF Len(md) = 0
                     THEN /\ error' = "IndexError"
                          /\ mpc' = "error"
                          /\ rendered' = {}
                     ELSE /\ error' = "none"
                          /\ rendered' = {"metrics"}
                          /\ mpc' = IF b THEN "predict" ELSE "historical"
    /\ UNCHANGED <<future_dates, forecast_df, engineVars, genVars>>

\* Line 195: forecasts = simple_forecast(monthly_data['Incidents_Reported'],
\* forecast_months)
MainPredict ==
    /\ mpc = "predict"
    /\ fpc = "idle"
    /\ city_data' = Column(monthly_data)
    /\ given' = Column(monthly_data)
    /\ months_ahead' = forecast_months
    /\ fpc' = "call"
    /\ draws' = <<>>
    /\ ret' = None
    /\ mpc' = "forecasting"
    /\ UNCHANGED <<trend, base, i, forecasts, prev, df, monthly_data,
                   forecast_months, button, future_dates, forecast_df,
                   rendered, error, genVars>>

\* Lines 197-270: with a forecast, the dates, the dataframe (pandas raises
\* ValueError when its columns differ in length), the chart, the table and
\* the insights; without one, nothing.
MainShowForecast ==
    /\ mpc = "forecasting"
    /\ fpc = "returned"
    /\ IF Truthy(ret)
       THEN LET fd == FutureDates(forecast_months)
            IN  /\ future_dates' = fd
                /\ IF Len(fd) # Len(ret.val)
                   THEN /\ error' = "ValueError"
                        /\ mpc' = "error"
                        /\ UNCHANGED <<forecast_df, rendered>>
                   ELSE /\ forecast_df' =
                             [k \in 1..Len(fd) |->
                                 [Date |-> fd[k], Predicted_Incidents |-> ret.val[k]]]
                        /\ rendered' = rendered \cup
                             {"forecast_chart", "forecast_table", "insights"}
                        /\ mpc' = "historical"
                        /\ error' = error
       ELSE /\ mpc' = "historical"
            /\ UNCHANGED <<future_dates, forecast_df, rendered, error>>
    /\ UNCHANGED <<df, monthly_data, forecast_months, button, engineVars, genVars>>

\* Lines 272-312: the historical-trends section and the footer.
MainHistorical ==
    /\ mpc = "historical"
    /\ rendered' = rendered \cup {"historical"}
    /\ mpc' = "done"
    /\ UNCHANGED <<df, monthly_data, forecast_months, button, future_dates,
                   forecast_df, error, engineVars, genVars>>

\* The next interaction: Streamlit runs the script again from the top.
MainRerun ==
    /\ mpc \in {"done", "returned", "error"}
    /\ mpc' = "start"
    /\ df' = "unread"
    /\ monthly_data' = <<>>
    /\ forecast_months' = SliderMin
    /\ button' = FALSE
    /\ future_dates' = <<>>
    /\ forecast_df' = <<>>
    /\ rendered' = {}
    /\ error' = "none"
    /\ city_data' = <<>>
    /\ given' = <<>>
    /\ months_ahead' = 0
    /\ fpc' = "idle"
    /\ draws' = <<>>
    /\ ret' = None
    /\ UNCHANGED <<trend, base, i, forecasts, prev, genVars>>

\* The loop of simple_forecast as main runs it: every factor may be drawn,
\* the model follows at most MaxPerturbed draws other than 1.0 per call.
MainForecastStep ==
    \E n \in Noise :
        /\ Perturbed(Append(draws, n)) <= MaxPerturbed
        /\ ForecastStep(n)

MainIdle ==
    /\ mpc = "start"
    /\ df = "unread"
    /\ monthly_data = <<>>
    /\ forecast_months = SliderMin
    /\ button = FALSE
    /\ future_dates = <<>>
    /\ forecast_df = <<>>
    /\ rendered = {}
    /\ error = "none"

----------------------------------------------------------------------------
(* generate_crime_data *)

CITIES == 1..MaxCities
CRIME_TYPES == 1..MaxCrimes

GenMonths == {1, 11, 12}
GenDays == {1, 15}

\* The start dates tried, and for each the end dates: from the month before
\* it to MaxSpan months after it.
StartDates == {<<FirstYear, m, d>> : m \in GenMonths, d \in GenDays}

EndDates(s) ==
    {<<(s[1] * 12 + s[2] - 1 + k) \div 12, ((s[1] * 12 + s[2] - 1 + k) % 12) + 1, d>> :
        k \in (-1)..MaxSpan, d \in GenDays}

\* datetime comparison a <= b
DateLE(a, b) ==
    \/ a[1] < b[1]
    \/ a[1] = b[1] /\ a[2] < b[2]
    \/ a[1] = b[1] /\ a[2] = b[2] /\ a[3] <= b[3]

\* A faulty NextMonth: December followed by January of the same year.
NextMonthSameYear(d) ==
    IF d[2] = 12 THEN <<d[1], 1, 1>> ELSE <<d[1], d[2] + 1, 1>>

\* Lines 129-132: the first day of the following month.
NextMonth(d) ==
    IF d[2] = 12 THEN <<d[1] + 1, 1, 1>> ELSE <<d[1], d[2] + 1, 1>>

\* int(base_rate * seasonal_factor * year_factor * crime_factor): the
\* count before the variation, for whatever rates were drawn.
RawIncidents == 0..MaxRaw

\* np.random.randint(-5, 6)
Variation == VarLow..(VarHighExcl - 1)

\* incidents = max(0, incidents + np.random.randint(-5, 6))
Incidents(raw, v) == Max0(raw + v)

\* Lines 53-59.
GenCall ==
    /\ gpc = "idle"
    /\ \E s \in StartDates : \E e \in EndDates(s) :
          /\ start' = s
          /\ end' = e
          /\ current_date' = s
    /\ data' = <<>>
    /\ gpc' = "while"
    /\ UNCHANGED <<year, month, city, crime, incidents, engineVars, mainVars>>

\* Lines 61-63 and 134-135: the loop test; the year and month of this pass,
\* or the return.
GenWhile ==
    /\ gpc = "while"
    /\ IF DateLE(current_date, end)
       THEN /\ year' = current_date[1]
            /\ month' = current_date[2]
            /\ city' = 1
            /\ gpc' = "city"
       ELSE /\ gpc' = "done"
            /\ UNCHANGED <<year, month, city>>
    /\ UNCHANGED <<start, end, current_date, crime, incidents, data,
                   engineVars, mainVars>>

\* Lines 65-81: the next city, its rates drawn, or the end of the cities.
GenCity ==
    /\ gpc = "city"
    /\ IF city \in CITIES
       THEN /\ crime' = 1
            /\ gpc' = "crime"
       ELSE /\ gpc' = "advance"
            /\ crime' = crime
    /\ UNCHANGED <<start, end, current_date, year, month, city, incidents,
                   data, engineVars, mainVars>>

\* Lines 87-126: one record for the next crime type, or the end of the city.
GenRecord ==
    /\ gpc = "crime"
    /\ IF crime \in CRIME_TYPES
       THEN /\ incidents' \in {Incidents(raw, v) : raw \in RawIncidents, v \in Variation}
            /\ data' = Append(data, [Year |-> year, Month |-> month,
                                     Date |-> current_date, City |-> city,
                                     Crime_Type |-> crime])
            /\ crime' = crime + 1
            /\ UNCHANGED <<city, gpc>>
       ELSE /\ city' = city + 1
            /\ gpc' = "city"
            /\ UNCHANGED <<crime, incidents, data>>
    /\ UNCHANGED <<start, end, current_date, year, month, engineVars, mainVars>>

\* Lines 128-132.
GenAdvance ==
    /\ gpc = "advance"
    /\ current_date' = NextMonth(current_date)
    /\ gpc' = "while"
    /\ UNCHANGED <<start, end, year, month, city, crime, incidents, data,
                   engineVars, mainVars>>

GenIdle ==
    /\ gpc = "idle"
    /\ start = <<FirstYear, 1, 1>>
    /\ end = <<FirstYear, 1, 1>>
    /\ current_date = <<FirstYear, 1, 1>>
    /\ year = 0
    /\ month = 0
    /\ city = 0
    /\ crime = 0
    /\ incidents = 0
    /\ data = <<>>

----------------------------------------------------------------------------
(* Specifications *)

Init == EngineIdle /\ MainIdle /\ GenIdle

\* simple_forecast called directly, again and again.
EngineNext ==
    \/ Invoke
    \/ Reinvoke
    \/ Finish
    \/ ForecastEnter
    \/ EngineForecastStep
    \/ ForecastReturn

EngineSpec == Init /\ [][EngineNext]_vars

\* The Streamlit script, run after run.
Next ==
    \/ MainStart
    \/ MainPredict
    \/ ForecastEnter
    \/ MainForecastStep
    \/ ForecastReturn
    \/ MainShowForecast
    \/ MainHistorical
    \/ MainRerun

Spec == Init /\ [][Next]_vars

\* One run of generate_crime_data; a sequential program keeps stepping.
GenNext ==
    \/ GenCall
    \/ GenWhile
    \/ GenCity
    \/ GenRecord
    \/ GenAdvance

GenSpec == Init /\ [][GenNext]_vars /\ WF_vars(GenNext)

----------------------------------------------------------------------------
(* Properties of simple_forecast, checked under EngineSpec *)

\* C1: a series with fewer than 12 values (11 and 0 included) never enters
\* the loop: whatever the horizon, the call returns None, no forecast point
\* is produced and no noise is drawn.
C1_ShortSeriesDegraded ==
    (fpc \in {"loop", "returned"} /\ Len(city_data) < 12) =>
        /\ fpc = "returned"
        /\ ret = None
        /\ forecasts = <<>>
        /\ draws = <<>>

C1_Witness ==
    /\ fpc = "returned"
    /\ Len(city_data) = 11
    /\ months_ahead = 3
    /\ ret = None

\* C2: for a series of at least 12 values and a horizon >= 1 the call
\* returns a list of exactly `horizon` points, none of them negative,
\* whichever factors were drawn.
C2_HorizonPointsNonNegative ==
    (fpc = "returned" /\ Len(city_data) >= 12 /\ months_ahead >= 1) =>
        /\ ~ret.none
        /\ Len(ret.val) = months_ahead
        /\ \A k \in 1..Len(ret.val) : ret.val[k] >= 0

C2_Witness ==
    /\ fpc = "returned"
    /\ Len(city_data) = 12
    /\ months_ahead = 3
    /\ Len(ret.val) = 3
    /\ draws = <<NoiseLow, NoiseHigh, NoiseLow>>
    /\ ret.val[1] > 0

\* The claim's own reading of the trailing windows of a series s of length
\* n >= 12: trend * 12 and base * 12.
SpecTrend12(s) == s[Len(s)] - s[Len(s) - 11]
SpecBase12(s) ==
    2 * (s[Len(s) - 5] + s[Len(s) - 4] + s[Len(s) - 3]
         + s[Len(s) - 2] + s[Len(s) - 1] + s[Len(s)])

\* A value in 1/120000 rounded to hundredths.
Hundredths(v) == (2 * v + 1200) \div 2400

\* C3: with every draw equal to 1.0, step k of the result is
\* max(0, base + trend * k), trend being (last - first of the trailing 12)/12
\* and base the mean of the trailing 6; a trailing-12 window with equal ends
\* gives base at every step; [100 x 11, 200] with horizon 3 gives
\* [125, 133.33, 141.67].
C3_PinnedNoiseFormula ==
    (fpc = "returned" /\ ~ret.none /\ \A k \in 1..Len(draws) : draws[k] = 10000) =>
        /\ \A k \in 1..Len(ret.val) :
              /\ ret.val[k] = 10000 * Max0(SpecBase12(given) + SpecTrend12(given) * k)
              /\ SpecTrend12(given) = 0 => ret.val[k] = 10000 * SpecBase12(given)
        /\ (given = [k \in 1..12 |-> IF k = 12 THEN 200 ELSE 100] /\ months_ahead = 3) =>
              [k \in 1..3 |-> Hundredths(ret.val[k])] = <<12500, 13333, 14167>>

C3_Witness ==
    /\ fpc = "returned"
    /\ given = [k \in 1..12 |-> IF k = 12 THEN 200 ELSE 100]
    /\ months_ahead = 3
    /\ draws = <<10000, 10000, 10000>>
    /\ ret.val = <<15000000, 16000000, 17000000>>

\* C5: a step whose raw value base + trend * k is negative emits exactly 0
\* for every factor drawn, and no point, in the list being built or in the
\* list returned, is negative.
C5_NegativeClampedToZero ==
    /\ fpc = "loop" =>
          \A k \in 1..Len(forecasts) :
              /\ forecasts[k] >= 0
              /\ base + trend * k < 0 => forecasts[k] = 0
    /\ (fpc = "returned" /\ ~ret.none) =>
          \A k \in 1..Len(ret.val) :
              /\ ret.val[k] >= 0
              /\ SpecBase12(given) + SpecTrend12(given) * k < 0 => ret.val[k] = 0

C5_Witness ==
    /\ fpc = "loop"
    /\ Len(forecasts) = 3
    /\ base + trend * 1 > 0
    /\ base + trend * 3 < 0
    /\ draws[3] = NoiseHigh
    /\ forecasts[1] > 0
    /\ forecasts[3] = 0

\* C6: every step draws its own factor in [0.95, 1.05]: a step with
\* raw = base + trend * k >= 0 emits a value between 0.95 * raw and
\* 1.05 * raw, and at every step still to run each factor can be drawn,
\* whatever was drawn at the steps before.
C6_IndependentNoisePerStep ==
    /\ fpc = "loop" =>
          \A k \in 1..Len(forecasts) :
              base + trend * k >= 0 =>
                  /\ 9500 * (base + trend * k) <= forecasts[k]
                  /\ forecasts[k] <= 10500 * (base + trend * k)
                  /\ forecasts[k] = draws[k] * (base + trend * k)
    /\ (fpc = "loop" /\ i <= months_ahead) =>
          \A n \in NoiseGrid : ENABLED ForecastStep(n)

C6_Witness ==
    /\ fpc = "loop"
    /\ given = [k \in 1..12 |-> IF k = 12 THEN 200 ELSE 100]
    /\ draws = <<9700, 10500, 10000>>
    /\ forecasts[1] = 14550000
    /\ forecasts[2] = 10500 * (base + 2 * trend)

\* C7: simple_forecast keeps nothing between invocations and leaves its
\* input alone: an invocation on the same series and horizon as the one
\* before it, drawing the same factors, returns the same result, after any
\* number of earlier invocations; and the series the caller passed is the
\* series it holds afterwards.
C7_StatelessAndPure ==
    /\ fpc # "idle" => city_data = given
    /\ (fpc = "returned" /\ prev.has /\ draws = prev.draws) => ret = prev.ret

C7_Witness ==
    /\ fpc = "returned"
    /\ prev.has
    /\ Len(given) = 13
    /\ draws = prev.draws
    /\ draws = <<NoiseHigh, 9700, NoiseLow>>
    /\ ret.val[1] > 0
    /\ ret = prev.ret

----------------------------------------------------------------------------
(* Properties of main, checked under Spec *)

(* Default anchoring of forecast periods (periods that follow the last     *)
(* observed month) has no state in this program: simple_forecast returns   *)
(* values without periods, and main, its only caller, always anchors them  *)
(* at start_date (FutureDates).  The periods main builds are the subject   *)
(* of C9.                                                                  *)

\* C8: when the button was pressed and simple_forecast returned None, the
\* run raises no error, builds no forecast chart and no forecast table, and
\* ends with the historical-trends section drawn; when it returned a
\* forecast (the slider allows 3..12), the chart and the table are drawn.
C8_DegradedSuppressesForecast ==
    /\ (button /\ fpc = "returned" /\ ret = None) =>
          /\ mpc # "error"
          /\ error = "none"
          /\ rendered \cap {"forecast_chart", "forecast_table"} = {}
          /\ forecast_df = <<>>
          /\ mpc = "done" => "historical" \in rendered
    /\ (button /\ fpc = "returned" /\ ret # None /\ mpc \in {"historical", "done"}) =>
          /\ forecast_months \in 3..12
          /\ {"forecast_chart", "forecast_table"} \subseteq rendered

C8_Witness ==
    /\ mpc = "done"
    /\ button
    /\ fpc = "returned"
    /\ ret = None
    /\ Len(monthly_data) = 11
    /\ forecast_months = 12
    /\ rendered = {"metrics", "historical"}
    /\ error = "none"

\* C9: for every slider value h in 3..12 the caller builds exactly h dates
\* for the h values simple_forecast returned (the dataframe's two columns
\* never differ in length), and the dates are July 2025, August 2025, ...
\* in consecutive months, rolling over into 2026 after December.
C9_FutureDatesMatchForecast ==
    /\ error # "ValueError"
    /\ (mpc \in {"historical", "done"} /\ button /\ ret # None) =>
          /\ forecast_months \in 3..12
          /\ Len(future_dates) = forecast_months
          /\ Len(ret.val) = forecast_months
          /\ Len(forecast_df) = forecast_months
          /\ \A k \in 1..Len(future_dates) :
                /\ future_dates[k] = IF k <= 6 THEN <<2025, 6 + k>> ELSE <<2026, k - 6>>
                /\ forecast_df[k].Date = future_dates[k]
                /\ forecast_df[k].Predicted_Incidents = ret.val[k]

C9_Witness ==
    /\ mpc = "done"
    /\ button
    /\ forecast_months = 12
    /\ Len(ret.val) = 12
    /\ future_dates[1] = <<2025, 7>>
    /\ future_dates[6] = <<2025, 12>>
    /\ future_dates[7] = <<2026, 1>>
    /\ future_dates[12] = <<2026, 6>>

----------------------------------------------------------------------------
(* Properties of generate_crime_data, checked under GenSpec *)

\* The months from the start date's month, counted as in PeriodIndex.
GenPeriod(d) == d[1] * 12 + (d[2] - 1)

PerMonth == MaxCities * MaxCrimes

\* Record number p (from 1) of a run that visits every month once, in
\* order, with one record per (city, crime type) pair.
ExpectedRecord(p) ==
    LET q      == (p - 1) \div PerMonth
        r      == (p - 1) % PerMonth
        period == GenPeriod(start) + q
    IN  [Year |-> period \div 12, Month |-> (period % 12) + 1,
         City |-> (r \div MaxCrimes) + 1, Crime_Type |-> (r % MaxCrimes) + 1]

C10_MonthsInOrder ==
    /\ incidents >= 0
    /\ \A p \in 1..Len(data) :
          /\ data[p].Year = ExpectedRecord(p).Year
          /\ data[p].Month = ExpectedRecord(p).Month
          /\ data[p].City = ExpectedRecord(p).City
          /\ data[p].Crime_Type = ExpectedRecord(p).Crime_Type
          /\ GenPeriod(<<data[p].Year, data[p].Month>>) <= GenPeriod(end)
    /\ (gpc = "done" /\ DateLE(start, end)) =>
          Len(data) = PerMonth * (GenPeriod(end) - GenPeriod(start) + 1)

\* C10: for start_date <= end_date the month loop terminates, having
\* visited every month from the start date's month through the end date's
\* month exactly once, in increasing order (December is followed by the
\* next year's January), with one record per (city, crime type) pair for
\* each month and Incidents_Reported >= 0 in each record.
C10_MonthLoopTerminatesComplete ==
    /\ []C10_MonthsInOrder
    /\ (gpc = "while" /\ DateLE(start, end)) ~> (gpc = "done")

C10_Witness ==
    /\ gpc = "done"
    /\ start = <<2019, 12, 15>>
    /\ end = <<2020, 2, 1>>
    /\ Len(data) = 3 * PerMonth
    /\ data[1].Month = 12
    /\ data[PerMonth + 1].Year = 2020
    /\ data[PerMonth + 1].Month = 1
    /\ data[Len(data)].Month = 2
    /\ incidents = 0

====
